---- MODULE Spec2Model ----
(***************************************************************************)
(* Semantic memory indexer of Sentinel (src/src/memory/semantic_indexer.py)*)
(* and the file observer that drives it (src/src/memory/file_observer.py). *)
(*                                                                         *)
(* The SQLite database is modelled as a committed state `db` plus, for     *)
(* every connection that has issued DML, a private working copy `txn`      *)
(* (Python's sqlite3 opens a transaction implicitly before the first       *)
(* INSERT/DELETE and holds the write lock until commit; a connection that  *)
(* is dropped without commit rolls back).                                  *)
(***************************************************************************)
EXTENDS Integers, Sequences, FiniteSets, TLC

(***************************** bounds **************************************)
MaxIds ==
  5

MaxClock ==
  4

MaxQueue ==
  2

MaxEdits ==
  2

MaxTopK ==
  2

(* the largest `days` given to get_recent_context *)
MaxDays ==
  1

(* clock units in a day: the clock is scaled so that a day fits the model  *)
Day ==
  2

(* the longest text, in words, and the largest chunk_size given to a call  *)
(* of chunk_text on its own                                                *)
MaxWords ==
  6

MaxSize ==
  3

(* SemanticIndexer(chunk_size, chunk_overlap), scaled down from 400 / 80.  *)
ChunkSize ==
  3

ChunkOverlap ==
  1

(* MemoryFileHandler(debounce_seconds = 2.0) *)
DebounceSeconds ==
  2

(***************************** universe ************************************)
Paths ==
  {"memory/a.md"}

(* Path("") is Path("."), the current directory *)
EmptyPath ==
  ""

Words ==
  {1, 2, 3}

File(kind, words, ws) ==
  [kind |-> kind, words |-> words, ws |-> ws]

Missing ==
  File("missing", <<>>, 0)

(* exists, but open() is denied *)
Unreadable ==
  File("unreadable", <<>>, 0)

(* readable bytes that are not valid UTF-8 *)
Binary ==
  File("binary", <<>>, 0)

Directory ==
  File("directory", <<>>, 0)

(* Readable UTF-8 files: the words of the text, and `ws`, which tells     *)
(* apart byte contents that differ only in their whitespace.  The last     *)
(* one is cut into two chunks of the same text.                            *)
TextFiles ==
  { File("text", <<>>, 0),
    File("text", <<1, 2>>, 0),
    File("text", <<1, 2>>, 1),
    File("text", <<3, 1, 1, 2>>, 0),
    File("text", <<1, 2, 1, 2, 1>>, 0) }

FileStates ==
  TextFiles \cup {Missing, Unreadable, Binary}

(* a second memory file, which nobody rewrites *)
OtherPath ==
  "memory/b.md"

OtherFile ==
  File("text", <<2, 1>>, 0)

AllPaths ==
  Paths \cup {OtherPath}


Procs ==
  {"watcher", "batch"}

Min(a, b) ==
  IF a <= b THEN a ELSE b

(***************************** pure functions ******************************)
RECURSIVE ChunkFrom(_, _, _, _)
ChunkFrom(words, start, size, overlap) ==
  IF start >= Len(words)
  THEN <<>>
  ELSE LET end == start + size
           chunk == SubSeq(words, start + 1, Min(end, Len(words)))
       IN IF end >= Len(words)
          THEN <<chunk>>
          ELSE <<chunk>> \o ChunkFrom(words, start + (size - overlap), size, overlap)

chunk_text(words) ==
  ChunkFrom(words, 0, ChunkSize, ChunkOverlap)

(* hashlib.sha256 over the bytes of the file: collision-free, and          *)
(* sensitive to whitespace that text.split() ignores.                      *)
_get_file_hash(f) ==
  [alg |-> "sha256", kind |-> f.kind, words |-> f.words, ws |-> f.ws]

(* fetchone() returned no row *)
NoHash ==
  [alg |-> "none", kind |-> "", words |-> <<>>, ws |-> 0]

(* SentenceTransformer.encode on one chunk: a deterministic function of    *)
(* the chunk text; here the bag-of-words vector of the chunk.              *)
Embed(chunk) ==
  [w \in Words |-> Cardinality({k \in 1..Len(chunk) : chunk[k] = w})]

(***************************** state ***************************************)
VARIABLES
  file,          \* the file system: path -> file state
  clock,         \* time.time() / datetime.now()
  events,        \* watchdog events not yet dispatched (paths, in order)
  edits,         \* number of file changes so far (bounded)
  pending_files, \* MemoryFileHandler.pending_files
  handled,       \* history: per path, the number of events _trigger_index has
                 \* handled and whether it has caught an exception for one
  vec_loaded,    \* whether _init_db could load the vec0 extension
  db,            \* the committed content of the database
  txn,           \* per connection, its uncommitted working copy
  unclosed,      \* a connection that a raising call left inside its transaction
  ix,            \* per indexing thread, the frame of its index_file call
  pre,           \* per indexing thread, db when the call was entered
  nextId,        \* stands for uuid.uuid4(): the next unused chunk id
  origin,        \* history: per chunk id ever committed, its path and insert batch
  sr,            \* the frame of the thread that runs the queries
  ct             \* the frame of a call of chunk_text with a configuration of its own

ixvars ==
  <<file, clock, events, edits, pending_files, handled, vec_loaded, db, txn, unclosed, ix, pre, nextId, origin, ct>>

vars ==
  <<file, clock, events, edits, pending_files, handled, vec_loaded, db, txn, unclosed, ix, pre, nextId, origin, sr, ct>>

(* memory_index_schema.sql, which _init_db runs: whether it creates the     *)
(* table that the fallback path of index_file creates on its own before    *)
(* its first use (CREATE TABLE IF NOT EXISTS embeddings_fallback).         *)
SchemaCreatesFallback ==
  FALSE

EmptyDB ==
  [ memory_chunks |-> {},
    indexed_files |-> {},
    vec_memory_chunks |-> {},
    embeddings_fallback |-> {},
    fallback_exists |-> SchemaCreatesFallback ]

IdleFrame ==
  [ pc |-> "idle",
    file_path |-> EmptyPath,
    via_event |-> FALSE,
    current_time |-> 0,
    file_hash |-> NoHash,
    result |-> NoHash,
    content |-> NoHash,
    chunks |-> <<>>,
    now |-> 0,
    in_txn |-> FALSE,
    issued |-> {},
    embed_calls |-> 0,
    ret |-> 0,
    exc |-> "" ]

IdleSearch ==
  [ pc |-> "idle",
    op |-> "",
    top_k |-> 0,
    bm25_weight |-> 0,
    vector_weight |-> 0,
    corpus |-> EmptyDB,
    days |-> 0,
    utc_offset |-> 0,
    now |-> 0,
    recent |-> <<>>,
    bm25_results |-> <<>>,
    similarities |-> <<>>,
    vector_results |-> <<>>,
    bm25_scores |-> {},
    vector_scores |-> {},
    combined_scores |-> {},
    sorted_chunk_ids |-> <<>>,
    results |-> <<>>,
    scored |-> {},
    dangling |-> {},
    exc |-> "" ]

IdleChunker ==
  [ pc |-> "idle",
    text |-> <<>>,
    chunk_size |-> 0,
    chunk_overlap |-> 0,
    words |-> <<>>,
    chunks |-> <<>>,
    start |-> 0 ]

FileAt(p) ==
  CASE p = EmptyPath -> Directory
    [] p = OtherPath -> OtherFile
    [] OTHER -> file[p]

ChunksOf(d, p) ==
  {c \in d.memory_chunks : c.file_path = p}

RecordOf(d, p) ==
  {r \in d.indexed_files : r.file_path = p}

StoredHash(d, p) ==
  IF RecordOf(d, p) = {}
  THEN NoHash
  ELSE (CHOOSE r \in RecordOf(d, p) : TRUE).file_hash

(* the write lock is free for i: no other connection is inside a transaction *)
LockFree(i) ==
  /\ ~unclosed
  /\ \A j \in Procs \ {i} : ~ix[j].in_txn

Init ==
  /\ file = [p \in Paths |-> Missing]
  /\ clock = DebounceSeconds
  /\ events = <<>>
  /\ edits = 0
  /\ pending_files = [p \in Paths |-> 0]
  /\ handled = [p \in Paths |-> [n |-> 0, raised |-> FALSE]]
  /\ vec_loaded \in BOOLEAN
  /\ db = EmptyDB
  /\ txn = [i \in Procs |-> EmptyDB]
  /\ unclosed = FALSE
  /\ ix = [i \in Procs |-> IdleFrame]
  /\ pre = [i \in Procs |-> EmptyDB]
  /\ nextId = 1
  /\ origin = {}
  /\ sr = IdleSearch
  /\ ct = IdleChunker

(***************************** environment *********************************)
(* Another process writes, creates, chmods or removes a file.  watchdog    *)
(* reports creations and modifications; on_deleted is not overridden.      *)
EditFile(p, f) ==
  /\ edits < MaxEdits
  /\ f # file[p]
  /\ file' = [file EXCEPT ![p] = f]
  /\ edits' = edits + 1
  /\ IF f = Missing
     THEN events' = events
     ELSE /\ Len(events) < MaxQueue
          /\ events' = Append(events, p)
  /\ UNCHANGED <<clock, pending_files, handled, vec_loaded, db, txn, unclosed, ix, pre, nextId, origin, sr, ct>>

(* the same while no MemoryObserver is running: nobody is told *)
WriteFile(p, f) ==
  /\ edits < MaxEdits
  /\ f # file[p]
  /\ file' = [file EXCEPT ![p] = f]
  /\ edits' = edits + 1
  /\ UNCHANGED <<clock, events, pending_files, handled, vec_loaded, db, txn, unclosed, ix, pre, nextId, origin, sr, ct>>

Tick ==
  /\ clock < MaxClock
  /\ clock' = clock + 1
  /\ UNCHANGED <<file, events, edits, pending_files, handled, vec_loaded, db, txn, unclosed, ix, pre, nextId, origin, sr, ct>>

(***************************** index_file **********************************)
(* The exception leaves index_file.  conn.close() is called on the two     *)
(* return paths only (lines 235, 310), so the connection is dropped as it  *)
(* is: its uncommitted changes are never seen by anybody, and it keeps the *)
(* write lock until the interpreter finalises the object (Finalize).       *)
Raise(i, e) ==
  /\ ix' = [ix EXCEPT ![i].pc = "raised", ![i].exc = e, ![i].in_txn = FALSE]
  /\ txn' = [txn EXCEPT ![i] = EmptyDB]
  /\ unclosed' = (unclosed \/ ix[i].in_txn)

(* The dropped connection is finalised, which rolls its transaction back   *)
(* and releases the write lock: at once where reference counting frees it, *)
(* at some later garbage collection where the object is part of a cycle.   *)
Finalize ==
  /\ unclosed
  /\ unclosed' = FALSE
  /\ UNCHANGED <<file, clock, events, edits, pending_files, handled, vec_loaded, db, txn, ix, pre, nextId, origin, sr, ct>>

(* the longest chunk list one file of TextFiles produces *)
MaxChunksPerFile ==
  CHOOSE n \in 0..MaxIds :
    /\ \A f \in TextFiles : Len(chunk_text(f.words)) <= n
    /\ \E f \in TextFiles : Len(chunk_text(f.words)) = n

(* a call is started only while it can be given fresh chunk ids *)
CanCall ==
  nextId + MaxChunksPerFile - 1 <= MaxIds

Enter(i, p, viaEvent) ==
  /\ ix' = [ix EXCEPT ![i] = [IdleFrame EXCEPT !.pc = "exists",
                                               !.file_path = p,
                                               !.via_event = viaEvent,
                                               !.current_time = clock]]
  /\ pre' = [pre EXCEPT ![i] = db]

(* index_all_memory_files, a script or a skill calls index_file(p) *)
DirectCall(i, p) ==
  /\ ix[i].pc = "idle"
  /\ CanCall
  /\ Enter(i, p, FALSE)
  /\ UNCHANGED <<file, clock, events, edits, pending_files, handled, vec_loaded, db, txn, unclosed, nextId, origin, sr, ct>>

(* line 217 *)
IndexFile_Exists(i) ==
  /\ ix[i].pc = "exists"
  /\ IF FileAt(ix[i].file_path) = Missing
     THEN Raise(i, "FileNotFoundError")
     ELSE /\ ix' = [ix EXCEPT ![i].pc = "hash"]
          /\ txn' = txn
          /\ unclosed' = unclosed
  /\ UNCHANGED <<file, clock, events, edits, pending_files, handled, vec_loaded, db, pre, nextId, origin, sr, ct>>

(* line 221 *)
IndexFile_Hash(i) ==
  /\ ix[i].pc = "hash"
  /\ LET f == FileAt(ix[i].file_path) IN
       CASE f = Missing    -> Raise(i, "FileNotFoundError")
         [] f = Unreadable -> Raise(i, "PermissionError")
         [] f = Directory  -> Raise(i, "IsADirectoryError")
         [] OTHER -> /\ ix' = [ix EXCEPT ![i].pc = "select",
                                         ![i].file_hash = _get_file_hash(f)]
                     /\ txn' = txn
                     /\ unclosed' = unclosed
  /\ UNCHANGED <<file, clock, events, edits, pending_files, handled, vec_loaded, db, pre, nextId, origin, sr, ct>>

(* the fetched row, a tuple, is compared with the hash string *)
Skips_row(result, file_hash) ==
  result # NoHash /\ <<result>> = file_hash

Skips(result, file_hash) ==
  result # NoHash /\ result = file_hash

(* lines 223-236 *)
IndexFile_Select(i) ==
  /\ ix[i].pc = "select"
  /\ LET result == StoredHash(db, ix[i].file_path) IN
       IF Skips(result, ix[i].file_hash)
       THEN ix' = [ix EXCEPT ![i].pc = "returned", ![i].result = result, ![i].ret = 0]
       ELSE ix' = [ix EXCEPT ![i].pc = IF result # NoHash THEN "delete" ELSE "read",
                             ![i].result = result]
  /\ UNCHANGED <<file, clock, events, edits, pending_files, handled, vec_loaded, db, txn, unclosed, pre, nextId, origin, sr, ct>>

(* DELETE FROM memory_chunks, without its WHERE clause *)
DeleteChunks_all(d, p) ==
  [d EXCEPT !.memory_chunks = {}]

(* line 241: DELETE FROM memory_chunks WHERE file_path = ? *)
DeleteChunks(d, p) ==
  [d EXCEPT !.memory_chunks = {c \in d.memory_chunks : c.file_path # p}]

(* line 244: DELETE FROM vec_memory_chunks WHERE chunk_id IN               *)
(*           (SELECT chunk_id FROM memory_chunks WHERE file_path = ?)      *)
DeleteVec(d, p) ==
  LET ids == {c.chunk_id : c \in ChunksOf(d, p)}
  IN [d EXCEPT !.vec_memory_chunks = {v \in d.vec_memory_chunks : v.chunk_id \notin ids}]

(* lines 239-246; the first DML statement opens the transaction *)
DeleteOld(d, p) ==
  LET d1 == DeleteChunks(d, p)
  IN IF vec_loaded THEN DeleteVec(d1, p) ELSE d1

(* the DELETE is committed on its own (a connection in autocommit mode) *)
IndexFile_Delete_autocommit(i) ==
  /\ ix[i].pc = "delete"
  /\ LockFree(i)
  /\ db' = DeleteOld(db, ix[i].file_path)
  /\ ix' = [ix EXCEPT ![i].pc = "read",
                      ![i].issued = @ \cup {"DELETE"}]
  /\ UNCHANGED <<file, clock, events, edits, pending_files, handled, vec_loaded, txn, unclosed, pre, nextId, origin, sr, ct>>

IndexFile_Delete(i) ==
  /\ ix[i].pc = "delete"
  /\ LockFree(i)
  /\ txn' = [txn EXCEPT ![i] = DeleteOld(db, ix[i].file_path)]
  /\ unclosed' = unclosed
  /\ ix' = [ix EXCEPT ![i].pc = "read",
                      ![i].in_txn = TRUE,
                      ![i].issued = @ \cup {"DELETE"}]
  /\ UNCHANGED <<file, clock, events, edits, pending_files, handled, vec_loaded, db, pre, nextId, origin, sr, ct>>

(* lines 248-255; `content` is history: the digest of the bytes that line *)
(* 250 has read                                                           *)
IndexFile_Read(i) ==
  /\ ix[i].pc = "read"
  /\ LET f == FileAt(ix[i].file_path) IN
       CASE f = Missing    -> Raise(i, "FileNotFoundError")
         [] f = Unreadable -> Raise(i, "PermissionError")
         [] f = Directory  -> Raise(i, "IsADirectoryError")
         [] f = Binary     -> Raise(i, "UnicodeDecodeError")
         [] OTHER -> /\ ix' = [ix EXCEPT ![i].pc = "embed",
                                         ![i].content = _get_file_hash(f),
                                         ![i].chunks = chunk_text(f.words),
                                         ![i].now = clock]
                     /\ txn' = txn
                     /\ unclosed' = unclosed
  /\ UNCHANGED <<file, clock, events, edits, pending_files, handled, vec_loaded, db, pre, nextId, origin, sr, ct>>

(* line 260: self.model.encode(chunks) returns *)
IndexFile_Embed(i) ==
  /\ ix[i].pc = "embed"
  /\ ix' = [ix EXCEPT ![i].pc = "insert", ![i].embed_calls = @ + 1]
  /\ UNCHANGED <<file, clock, events, edits, pending_files, handled, vec_loaded, db, txn, unclosed, pre, nextId, origin, sr, ct>>

(* line 260: self.model.encode(chunks) raises *)
IndexFile_EmbedFails(i) ==
  /\ ix[i].pc = "embed"
  /\ Raise(i, "EmbeddingError")
  /\ UNCHANGED <<file, clock, events, edits, pending_files, handled, vec_loaded, db, pre, nextId, origin, sr, ct>>

(* enumerate(..., 1): the chunk_index values start at 1 *)
NewChunks_from_one(p, chunks, now, first) ==
  { [ chunk_id |-> first + k - 1,
      file_path |-> p,
      chunk_text |-> chunks[k],
      chunk_index |-> k,
      created_at |-> now ] : k \in 1..Len(chunks) }

(* lines 263-300: one memory_chunks row and one embedding row per chunk *)
NewChunks(p, chunks, now, first) ==
  { [ chunk_id |-> first + k - 1,
      file_path |-> p,
      chunk_text |-> chunks[k],
      chunk_index |-> k - 1,
      created_at |-> now ] : k \in 1..Len(chunks) }

NewEmbeddings(chunks, first) ==
  { [chunk_id |-> first + k - 1, embedding |-> Embed(chunks[k])] : k \in 1..Len(chunks) }

(* the embedding INSERT fails in both tables and the error is swallowed *)
InsertChunks_chunks_only(d, p, chunks, now, first) ==
  [d EXCEPT !.memory_chunks = @ \cup NewChunks(p, chunks, now, first)]

InsertChunks(d, p, chunks, now, first) ==
  LET d1 == [d EXCEPT !.memory_chunks = @ \cup NewChunks(p, chunks, now, first)]
  IN IF vec_loaded
     THEN [d1 EXCEPT !.vec_memory_chunks = @ \cup NewEmbeddings(chunks, first)]
     ELSE [d1 EXCEPT !.embeddings_fallback = @ \cup NewEmbeddings(chunks, first),
                     !.fallback_exists = @ \/ Len(chunks) > 0]

(* last_indexed is given a datetime.now() of its own, taken at the INSERT *)
UpdateIndexedFiles_own_now(d, p, file_hash, now, n) ==
  [d EXCEPT !.indexed_files =
      {r \in @ : r.file_path # p}
      \cup {[file_path |-> p, file_hash |-> file_hash, last_indexed |-> clock, chunk_count |-> n]}]

(* lines 302-307: INSERT OR REPLACE INTO indexed_files *)
UpdateIndexedFiles(d, p, file_hash, now, n) ==
  [d EXCEPT !.indexed_files =
      {r \in @ : r.file_path # p}
      \cup {[file_path |-> p, file_hash |-> file_hash, last_indexed |-> now, chunk_count |-> n]}]

(* lines 262-313 *)
IndexFile_Insert(i) ==
  /\ ix[i].pc = "insert"
  /\ LockFree(i)
  /\ LET f == ix[i]
         base == IF f.in_txn THEN txn[i] ELSE db
         d1 == InsertChunks(base, f.file_path, f.chunks, f.now, nextId)
         d2 == UpdateIndexedFiles(d1, f.file_path, f.file_hash, f.now, Len(f.chunks))
     IN /\ db' = d2
        /\ nextId' = nextId + Len(f.chunks)
        /\ origin' = origin \cup { [chunk_id |-> nextId + k - 1,
                                   file_path |-> f.file_path,
                                   batch |-> nextId] : k \in 1..Len(f.chunks) }
        /\ ix' = [ix EXCEPT ![i].pc = "returned",
                            ![i].in_txn = FALSE,
                            ![i].issued = @ \cup {"INSERT"},
                            ![i].ret = Len(f.chunks)]
  /\ txn' = [txn EXCEPT ![i] = EmptyDB]
  /\ UNCHANGED <<file, clock, events, edits, pending_files, handled, vec_loaded, unclosed, pre, sr, ct>>

(* lines 241 / 267: the statement needs the write lock, another connection *)
(* holds it past the busy timeout: "database is locked"                    *)
IndexFile_Busy(i) ==
  /\ ix[i].pc \in {"delete", "insert"}
  /\ ~LockFree(i)
  /\ Raise(i, "OperationalError")
  /\ UNCHANGED <<file, clock, events, edits, pending_files, handled, vec_loaded, db, pre, nextId, origin, sr, ct>>

(***************************** chunk_text **********************************)
(* A text is its sequence of tokens: 0 is a run of whitespace, k > 0 the   *)
(* k-th word of the text (the words are told apart by their position).     *)
IsWord(t) ==
  t # 0

(* str.split(" "): whitespace is kept, as empty words *)
split_on_space(text) ==
  text

(* str.split(): the words, whitespace dropped *)
split(text) ==
  SelectSeq(text, IsWord)

(* W words with single separators, and the same inside leading and         *)
(* trailing whitespace                                                     *)
Spaced(W) ==
  IF W = 0
  THEN <<>>
  ELSE [j \in 1..(2 * W - 1) |-> IF j % 2 = 1 THEN (j + 1) \div 2 ELSE 0]

Texts ==
  UNION { {Spaced(W), <<0>> \o Spaced(W) \o <<0>>} : W \in 0..MaxWords }

(* the configurations with 0 <= chunk_overlap < chunk_size *)
Configs ==
  { c \in (1..MaxSize) \X (0..MaxSize) : c[2] < c[1] }

(* lines 164-168 *)
ChunkText_Call(text, size, overlap) ==
  /\ ct.pc = "idle"
  /\ ct' = [IdleChunker EXCEPT !.pc = "loop",
                               !.text = text,
                               !.chunk_size = size,
                               !.chunk_overlap = overlap,
                               !.words = split(text)]
  /\ UNCHANGED <<file, clock, events, edits, pending_files, handled, vec_loaded, db, txn, unclosed, ix, pre, nextId, origin, sr>>

(* the slice words[start:end + 1] *)
ChunkText_Slice_inclusive(words, start, end) ==
  SubSeq(words, start + 1, Min(end + 1, Len(words)))

(* the slice words[start:end], 0 <= start *)
ChunkText_Slice(words, start, end) ==
  SubSeq(words, start + 1, Min(end, Len(words)))

(* the loop runs to len(words) without the break of lines 180-181 *)
ChunkText_Break_never(end, words) ==
  FALSE

(* lines 180-181 *)
ChunkText_Break(end, words) ==
  end >= Len(words)

(* lines 170-181: the test of the while loop and one turn of its body *)
ChunkText_Loop ==
  /\ ct.pc = "loop"
  /\ IF ct.start < Len(ct.words)
     THEN LET end == ct.start + ct.chunk_size
              chunk == ChunkText_Slice(ct.words, ct.start, end)
          IN ct' = [ct EXCEPT !.chunks = Append(@, chunk),
                              !.start = @ + (ct.chunk_size - ct.chunk_overlap),
                              !.pc = IF ChunkText_Break(end, ct.words) THEN "returned" ELSE "loop"]
     ELSE ct' = [ct EXCEPT !.pc = "returned"]
  /\ UNCHANGED <<file, clock, events, edits, pending_files, handled, vec_loaded, db, txn, unclosed, ix, pre, nextId, origin, sr>>

(* line 183 *)
ChunkText_Return ==
  /\ ct.pc = "returned"
  /\ ct' = IdleChunker
  /\ UNCHANGED <<file, clock, events, edits, pending_files, handled, vec_loaded, db, txn, unclosed, ix, pre, nextId, origin, sr>>

(***************************** file observer *******************************)
(* _trigger_index, lines 54-72: the observer thread dispatches an event    *)
TriggerIndex(i) ==
  /\ ix[i].pc = "idle"
  /\ events # <<>>
  /\ CanCall
  /\ LET p == Head(events) IN
       /\ events' = Tail(events)
       /\ IF clock - pending_files[p] < DebounceSeconds
          THEN /\ pending_files' = [pending_files EXCEPT ![p] = clock]
               /\ handled' = [handled EXCEPT ![p].n = @ + 1]
               /\ UNCHANGED <<ix, pre>>
          ELSE IF file[p] = Missing
               THEN /\ handled' = [handled EXCEPT ![p].n = @ + 1]
                    /\ UNCHANGED <<pending_files, ix, pre>>
               ELSE /\ Enter(i, p, TRUE)
                    /\ UNCHANGED <<pending_files, handled>>
  /\ UNCHANGED <<file, clock, edits, vec_loaded, db, txn, unclosed, nextId, origin, sr, ct>>

(* index_file is left: lines 73-75 of _trigger_index, or the caller of a   *)
(* direct call                                                              *)
Return(i) ==
  /\ ix[i].pc \in {"returned", "raised"}
  /\ LET f == ix[i] IN
       /\ pending_files' = IF f.via_event /\ f.pc = "returned"
                           THEN [pending_files EXCEPT ![f.file_path] = f.current_time]
                           ELSE pending_files
       /\ handled' = IF f.via_event
                     THEN [handled EXCEPT ![f.file_path] =
                             [n |-> @.n + 1, raised |-> @.raised \/ f.pc = "raised"]]
                     ELSE handled
  /\ ix' = [ix EXCEPT ![i] = IdleFrame]
  /\ pre' = [pre EXCEPT ![i] = EmptyDB]
  /\ UNCHANGED <<file, clock, events, edits, vec_loaded, db, txn, unclosed, nextId, origin, sr, ct>>

(***************************** queries **************************************)
Query ==
  <<1>>

(* search_hybrid(bm25_weight = 0.3, vector_weight = 0.7), in hundredths *)
Bm25Weight ==
  30

VectorWeight ==
  70

Range(s) ==
  {s[k] : k \in 1..Len(s)}

Take(s, k) ==
  SubSeq(s, 1, Min(k, Len(s)))

Ids(s) ==
  {s[k].chunk_id : k \in 1..Len(s)}

RECURSIVE SumF(_, _)
SumF(f, S) ==
  IF S = {}
  THEN 0
  ELSE LET x == CHOOSE y \in S : TRUE
       IN f[x] + SumF(f, S \ {x})

Dot(a, b) ==
  SumF([w \in Words |-> a[w] * b[w]], Words)

ISqrt(n) ==
  CHOOSE r \in 0..n : r * r <= n /\ n < (r + 1) * (r + 1)

(* np.dot(q, e) / (norm(q) * norm(e)), in hundredths, rounded down *)
CosineSimilarity(q, e) ==
  ISqrt((10000 * Dot(q, e) * Dot(q, e)) \div (Dot(q, q) * Dot(e, e)))

(* vec_distance_cosine(embedding, ?) *)
vec_distance_cosine(e, q) ==
  100 - CosineSimilarity(q, e)

(* FTS5 rank: the bm25 statistic, negative, smaller is more relevant;      *)
(* grows with the term frequency and shrinks with the chunk length.        *)
Bm25Rank(text, q) ==
  LET tf == Cardinality({k \in 1..Len(text) : text[k] \in Range(q)})
  IN 0 - ((100 * tf) \div (Len(text) + 1))

(* the sequences that list the rows of S by score, dir = 1 descending and  *)
(* dir = -1 ascending, rows of equal score in any order                    *)
RECURSIVE Orders(_, _)
Orders(S, dir) ==
  IF S = {}
  THEN {<<>>}
  ELSE UNION { {<<x>> \o t : t \in Orders(S \ {x}, dir)} :
               x \in {y \in S : \A z \in S : dir * y.score >= dir * z.score} }

(* list.sort(key, reverse=True) over rows fetched in rowid order: stable,  *)
(* rows of equal score stay in insertion order                             *)
RECURSIVE StableDesc(_)
StableDesc(S) ==
  IF S = {}
  THEN <<>>
  ELSE LET x == CHOOSE y \in S : \A z \in S :
                    \/ y.score > z.score
                    \/ y.score = z.score /\ y.chunk_id <= z.chunk_id
       IN <<x>> \o StableDesc(S \ {x})

(* enumerate(rows, 1) *)
Ranked(rows) ==
  [k \in 1..Len(rows) |-> [chunk_id |-> rows[k].chunk_id, score |-> rows[k].score, rank |-> k]]

(* enumerate(rows, 1) with `if chunk_id in chunk_map` *)
RECURSIVE RankedIfPresent(_, _, _)
RankedIfPresent(rows, k, chunk_map) ==
  IF k > Len(rows)
  THEN <<>>
  ELSE (IF rows[k].chunk_id \in chunk_map
        THEN <<[chunk_id |-> rows[k].chunk_id, score |-> rows[k].score, rank |-> k]>>
        ELSE <<>>) \o RankedIfPresent(rows, k + 1, chunk_map)

(* lines 329-352: fts JOIN memory_chunks ... MATCH ? ORDER BY rank LIMIT ? *)
search_bm25(d, q, k) ==
  LET rows == { [chunk_id |-> c.chunk_id, score |-> Bm25Rank(c.chunk_text, q)] :
                c \in {m \in d.memory_chunks : Range(q) \subseteq Range(m.chunk_text)} }
  IN {Ranked(Take(o, k)) : o \in Orders(rows, -1)}

(* lines 376-401: vec JOIN memory_chunks ORDER BY score ASC LIMIT ? *)
VectorNative(vec, chunks, q, k) ==
  LET present == {c.chunk_id : c \in chunks}
      rows == { [chunk_id |-> v.chunk_id, score |-> vec_distance_cosine(v.embedding, Embed(q))] :
                v \in {w \in vec : w.chunk_id \in present} }
      sim(o) == [j \in 1..Len(o) |-> [chunk_id |-> o[j].chunk_id, score |-> 100 - o[j].score]]
  IN {Ranked(sim(Take(o, k))) : o \in Orders(rows, -1)}

(* lines 405-418: scan of embeddings_fallback, similarities sorted *)
Similarities(fallback, q) ==
  StableDesc({ [chunk_id |-> v.chunk_id, score |-> CosineSimilarity(Embed(q), v.embedding)] :
               v \in fallback })

(* lines 419-443: the details of the top rows are fetched from memory_chunks *)
VectorFallbackResults(similarities, chunks, k) ==
  RankedIfPresent(Take(similarities, k), 1, {c.chunk_id : c \in chunks})

(* lines 472-487, as fractions num/den with one den per result list *)
ScoreRange(results) ==
  LET scores == {results[k].score : k \in 1..Len(results)}
      min_score == CHOOSE x \in scores : \A y \in scores : x <= y
      max_score == CHOOSE x \in scores : \A y \in scores : x >= y
  IN IF results = <<>> THEN 0 ELSE max_score - min_score

(* the division is made without the test of line 481 *)
NormDen_range(results) ==
  ScoreRange(results)

NormDen(results) ==
  IF ScoreRange(results) = 0 THEN 1 ELSE ScoreRange(results)

normalize_scores(results) ==
  LET scores == {results[k].score : k \in 1..Len(results)}
      min_score == CHOOSE x \in scores : \A y \in scores : x <= y
  IN { [chunk_id |-> results[k].chunk_id,
        num |-> IF ScoreRange(results) = 0 THEN 1 ELSE results[k].score - min_score] :
       k \in 1..Len(results) }

(* the dictionary normalize_scores returns, each value as num / den *)
Fractions(results) ==
  { [chunk_id |-> r.chunk_id, num |-> r.num, den |-> NormDen(results)] :
    r \in normalize_scores(results) }

(* lines 499-500: scores.get(chunk_id, 0.0) *)
GetScore(scores, id) ==
  IF \E r \in scores : r.chunk_id = id
  THEN (CHOOSE r \in scores : r.chunk_id = id).num
  ELSE 0

(* only the candidates that both searches returned are scored *)
CombinedScores_common(bm25_results, vector_results, bm25_weight, vector_weight) ==
  LET bm25_scores == normalize_scores(bm25_results)
      vector_scores == normalize_scores(vector_results)
      all_chunk_ids == Ids(bm25_results) \cap Ids(vector_results)
  IN { [chunk_id |-> id,
        score |-> bm25_weight * GetScore(bm25_scores, id) * NormDen(vector_results)
                  + vector_weight * GetScore(vector_scores, id) * NormDen(bm25_results)] :
       id \in all_chunk_ids }

(* each weight is applied to the score of the other search *)
CombinedScores_swapped(bm25_results, vector_results, bm25_weight, vector_weight) ==
  LET bm25_scores == normalize_scores(bm25_results)
      vector_scores == normalize_scores(vector_results)
      all_chunk_ids == Ids(bm25_results) \cup Ids(vector_results)
  IN { [chunk_id |-> id,
        score |-> vector_weight * GetScore(bm25_scores, id) * NormDen(vector_results)
                  + bm25_weight * GetScore(vector_scores, id) * NormDen(bm25_results)] :
       id \in all_chunk_ids }

(* lines 489-502: combined score of every candidate, over the common       *)
(* denominator 100 * NormDen(bm25_results) * NormDen(vector_results)       *)
CombinedScores(bm25_results, vector_results, bm25_weight, vector_weight) ==
  LET bm25_scores == normalize_scores(bm25_results)
      vector_scores == normalize_scores(vector_results)
      all_chunk_ids == Ids(bm25_results) \cup Ids(vector_results)
  IN { [chunk_id |-> id,
        score |-> bm25_weight * GetScore(bm25_scores, id) * NormDen(vector_results)
                  + vector_weight * GetScore(vector_scores, id) * NormDen(bm25_results)] :
       id \in all_chunk_ids }

(* sorted without reverse=True: the lowest combined scores first *)
SortedChunkIds_ascending(combined, k) ==
  {Take(o, k) : o \in Orders(combined, 0 - 1)}

(* lines 505-509: sorted(..., reverse=True)[:top_k] over a set of ids *)
SortedChunkIds(combined, k) ==
  {Take(o, k) : o \in Orders(combined, 1)}

(***************************** searcher *************************************)
(* the limit of the inner searches: search_hybrid asks for top_k * 2 *)
Limit ==
  IF sr.op = "hybrid" THEN sr.top_k * 2 ELSE sr.top_k

(* the weights a caller of search_hybrid passes, in hundredths: the        *)
(* defaults, lexical only and vector only                                  *)
Weights ==
  {<<Bm25Weight, VectorWeight>>, <<100, 0>>, <<0, 100>>}

StartSearch(op, k, w) ==
  /\ sr.pc = "idle"
  /\ sr' = [IdleSearch EXCEPT !.pc = IF op = "vector" THEN "vector" ELSE "bm25",
                              !.op = op,
                              !.top_k = k,
                              !.bm25_weight = w[1],
                              !.vector_weight = w[2]]
  /\ UNCHANGED ixvars

(* search_bm25, alone or as line 468 of search_hybrid; `corpus` is         *)
(* history: the committed database that the first statement of a query    *)
(* has read                                                                *)
Search_Bm25 ==
  /\ sr.pc = "bm25"
  /\ \E r \in search_bm25(db, Query, Limit) :
       sr' = IF sr.op = "bm25"
             THEN [sr EXCEPT !.pc = "returned", !.results = r, !.scored = Ids(r),
                             !.corpus = db]
             ELSE [sr EXCEPT !.pc = "vector", !.bm25_results = r, !.scored = Ids(r),
                             !.corpus = db]
  /\ UNCHANGED ixvars

(* search_vector has its results: it returns, or search_hybrid goes on *)
AfterVector(r, scored, dangling) ==
  sr' = IF sr.op = "vector"
        THEN [sr EXCEPT !.pc = "returned", !.results = r,
                        !.scored = @ \cup scored, !.dangling = @ \cup dangling,
                        !.corpus = IF vec_loaded THEN db ELSE @]
        ELSE [sr EXCEPT !.pc = "hybrid_fetch", !.vector_results = r,
                        !.scored = @ \cup scored, !.dangling = @ \cup dangling]

(* search_vector, lines 374-401: the vec0 query succeeds *)
Search_VectorNative ==
  /\ sr.pc = "vector"
  /\ vec_loaded
  /\ \E r \in VectorNative(db.vec_memory_chunks, db.memory_chunks, Query, Limit) :
       AfterVector(r, Ids(r), {})
  /\ UNCHANGED ixvars

(* the fallback creates its table when it is missing, then scans it *)
Search_VectorScan_creates ==
  /\ sr.pc = "vector"
  /\ ~vec_loaded
  /\ LET sims == Similarities(db.embeddings_fallback, Query)
     IN sr' = [sr EXCEPT !.pc = "vector_fetch",
                         !.similarities = sims,
                         !.scored = @ \cup Ids(sims),
                         !.corpus = IF sr.op = "vector" THEN db ELSE @]
  /\ db' = [db EXCEPT !.fallback_exists = TRUE]
  /\ UNCHANGED <<file, clock, events, edits, pending_files, handled, vec_loaded, txn, unclosed, ix, pre, nextId, origin, ct>>

(* search_vector, lines 403-419: no vec0, embeddings_fallback is scanned *)
Search_VectorScan ==
  /\ sr.pc = "vector"
  /\ ~vec_loaded
  /\ IF db.fallback_exists
     THEN LET sims == Similarities(db.embeddings_fallback, Query)
          IN sr' = [sr EXCEPT !.pc = "vector_fetch",
                              !.similarities = sims,
                              !.scored = @ \cup Ids(sims),
                              !.corpus = IF sr.op = "vector" THEN db ELSE @]
     ELSE sr' = [sr EXCEPT !.pc = "raised", !.exc = "OperationalError"]
  /\ UNCHANGED ixvars

(* search_vector, lines 421-446 *)
Search_VectorFetch ==
  /\ sr.pc = "vector_fetch"
  /\ LET top == Take(sr.similarities, Limit)
         r == VectorFallbackResults(sr.similarities, db.memory_chunks, Limit)
     IN AfterVector(r, {}, Ids(top) \ Ids(r))
  /\ UNCHANGED ixvars

(* search_hybrid, lines 471-539 *)
Search_HybridFetch ==
  /\ sr.pc = "hybrid_fetch"
  /\ LET combined_scores == CombinedScores(sr.bm25_results, sr.vector_results,
                                           sr.bm25_weight, sr.vector_weight)
     IN \E sorted_chunk_ids \in SortedChunkIds(combined_scores, sr.top_k) :
       LET r == RankedIfPresent(sorted_chunk_ids, 1, {c.chunk_id : c \in db.memory_chunks})
       IN sr' = [sr EXCEPT !.pc = "returned",
                           !.bm25_scores = Fractions(sr.bm25_results),
                           !.vector_scores = Fractions(sr.vector_results),
                           !.combined_scores = combined_scores,
                           !.sorted_chunk_ids = sorted_chunk_ids,
                           !.results = r,
                           !.dangling = @ \cup (Ids(sorted_chunk_ids) \ Ids(r))]
  /\ UNCHANGED ixvars

(* local time minus UTC on the machine, in clock units: UTC or half a day  *)
(* to either side                                                          *)
UtcOffsets ==
  {0 - 1, 0, 1}

(* get_recent_context(days) is called *)
StartRecent(days, off) ==
  /\ sr.pc = "idle"
  /\ sr' = [IdleSearch EXCEPT !.pc = "recent",
                              !.op = "recent",
                              !.days = days,
                              !.utc_offset = off]
  /\ UNCHANGED ixvars

(* lines 554-559: created_at holds datetime.now().isoformat(), the local   *)
(* time of the insert; datetime('now', '-N days') is N days before the     *)
(* current time in UTC.  ORDER BY created_at DESC, rows of equal           *)
(* created_at in any order.                                                *)
get_recent_context(d, days, utc_now) ==
  LET rows == { [chunk_id |-> c.chunk_id, score |-> c.created_at] :
                c \in {m \in d.memory_chunks : m.created_at >= utc_now - days * Day} }
  IN { [j \in 1..Len(o) |-> [chunk_id |-> o[j].chunk_id, created_at |-> o[j].score]] :
       o \in Orders(rows, 1) }

(* lines 551-575; `now` is history, the local time of the statement *)
Search_Recent ==
  /\ sr.pc = "recent"
  /\ \E r \in get_recent_context(db, sr.days, clock - sr.utc_offset) :
       sr' = [sr EXCEPT !.pc = "returned", !.now = clock, !.recent = r, !.corpus = db]
  /\ UNCHANGED ixvars

Search_Return ==
  /\ sr.pc \in {"returned", "raised"}
  /\ sr' = IdleSearch
  /\ UNCHANGED ixvars

SearchStep ==
  \/ \E op \in {"bm25", "vector"}, k \in 1..MaxTopK :
       StartSearch(op, k, <<Bm25Weight, VectorWeight>>)
  \/ \E k \in 1..MaxTopK, w \in Weights : StartSearch("hybrid", k, w)
  \/ Search_Bm25
  \/ Search_VectorNative
  \/ Search_VectorScan
  \/ Search_VectorFetch
  \/ Search_HybridFetch
  \/ \E days \in 0..MaxDays, off \in UtcOffsets : StartRecent(days, off)
  \/ Search_Recent
  \/ Search_Return

IndexStep(i) ==
  \/ IndexFile_Exists(i)
  \/ IndexFile_Hash(i)
  \/ IndexFile_Select(i)
  \/ IndexFile_Delete(i)
  \/ IndexFile_Read(i)
  \/ IndexFile_Embed(i)
  \/ IndexFile_EmbedFails(i)
  \/ IndexFile_Insert(i)
  \/ IndexFile_Busy(i)
  \/ Return(i)

(* The observer thread serves the watchdog events and, between them, the  *)
(* direct calls of index_all_memory_files.                                 *)
Next ==
  \/ \E p \in Paths, f \in FileStates : EditFile(p, f)
  \/ Tick
  \/ \E p \in Paths \cup {EmptyPath} : DirectCall("watcher", p)
  \/ TriggerIndex("watcher")
  \/ IndexStep("watcher")
  \/ Finalize

Spec ==
  Init /\ [][Next]_vars

(* No observer: one thread indexes by direct calls while another queries.  *)
NextQuery ==
  \/ \E p \in Paths, f \in FileStates : WriteFile(p, f)
  \/ \E p \in Paths : DirectCall("batch", p)
  \/ IndexStep("batch")
  \/ Finalize
  \/ SearchStep

SpecQuery ==
  Init /\ [][NextQuery]_vars

(* No observer: two threads call index_file at the same time.              *)
NextConc ==
  \/ \E p \in Paths, f \in FileStates : WriteFile(p, f)
  \/ \E i \in Procs, p \in Paths : DirectCall(i, p)
  \/ \E i \in Procs : IndexStep(i)
  \/ Finalize

SpecConc ==
  Init /\ [][NextConc]_vars

(* No observer: one thread indexes by direct calls while time passes, and  *)
(* another asks for the recent chunks.                                     *)
NextRecent ==
  \/ \E p \in Paths, f \in FileStates : WriteFile(p, f)
  \/ Tick
  \/ \E p \in Paths : DirectCall("batch", p)
  \/ IndexStep("batch")
  \/ Finalize
  \/ \E days \in 0..MaxDays, off \in UtcOffsets : StartRecent(days, off)
  \/ Search_Recent
  \/ Search_Return

SpecRecent ==
  Init /\ [][NextRecent]_vars

(* No observer: one thread indexes two memory files by direct calls while  *)
(* time passes.                                                            *)
NextPaths ==
  \/ \E p \in Paths, f \in FileStates : WriteFile(p, f)
  \/ Tick
  \/ \E p \in AllPaths : DirectCall("batch", p)
  \/ IndexStep("batch")
  \/ Finalize

SpecPaths ==
  Init /\ [][NextPaths]_vars

(* chunk_text on its own, for every text and valid configuration; the     *)
(* calling thread keeps running its loop.                                  *)
NextChunk ==
  \/ \E text \in Texts, c \in Configs : ChunkText_Call(text, c[1], c[2])
  \/ ChunkText_Loop
  \/ ChunkText_Return

SpecChunk ==
  Init /\ [][NextChunk]_vars /\ WF_vars(ChunkText_Loop)

(***************************** properties **********************************)
Left(i) ==
  ix[i].pc \in {"returned", "raised"}

(* the chunk texts stored for p, in chunk_index order, when the indices    *)
(* are exactly 0..n-1                                                       *)
TextsOf(d, p) ==
  LET cs == ChunksOf(d, p)
      n == Cardinality(cs)
  IN [k \in 1..n |-> IF \E c \in cs : c.chunk_index = k - 1
                     THEN (CHOOSE c \in cs : c.chunk_index = k - 1).chunk_text
                     ELSE <<0>>]

(* C1: when the embedding provider fails in a call that re-indexes a path, *)
(* the chunks and the file record stored for the path after the call are   *)
(* those stored when the call was entered.                                 *)
C1_ReindexAtomic ==
  \A i \in Procs :
    (ix[i].pc = "raised" /\ ix[i].exc = "EmbeddingError" /\ ix[i].result # NoHash)
    => /\ ChunksOf(db, ix[i].file_path) = ChunksOf(pre[i], ix[i].file_path)
       /\ RecordOf(db, ix[i].file_path) = RecordOf(pre[i], ix[i].file_path)

C1_Witness ==
  \E i \in Procs :
    /\ ix[i].pc = "raised" /\ ix[i].exc = "EmbeddingError" /\ ix[i].result # NoHash
    /\ "DELETE" \in ix[i].issued
    /\ ChunksOf(db, ix[i].file_path) # {}

(* C2: a call of index_file has issued its DELETE only if its embedding    *)
(* call has already returned (embed-then-swap).                            *)
C2_EmbedThenSwap ==
  \A i \in Procs : "DELETE" \in ix[i].issued => ix[i].embed_calls > 0

(* C3: a call that finds the digest of the file equal to the stored digest *)
(* returns 0, has called the embedding provider zero times, has issued no  *)
(* statement that writes, and leaves the database as it found it.          *)
C3_UnchangedSkips ==
  \A i \in Procs :
    (Left(i) /\ ix[i].file_hash # NoHash
             /\ ix[i].file_hash = StoredHash(pre[i], ix[i].file_path))
    => /\ ix[i].pc = "returned"
       /\ ix[i].ret = 0
       /\ ix[i].embed_calls = 0
       /\ ix[i].issued = {}
       /\ db = pre[i]

C3_Witness ==
  \E i \in Procs :
    /\ ix[i].pc = "returned" /\ ix[i].ret = 0
    /\ ix[i].file_hash = StoredHash(pre[i], ix[i].file_path)
    /\ ChunksOf(db, ix[i].file_path) # {}
    /\ db = pre[i]

(* C4: for every path with a file record, the chunks stored under the path *)
(* are, in chunk_index order, chunk_text of the content whose digest the   *)
(* record holds, and nothing else.                                         *)
C4_ChunksMatchDigest ==
  \A p \in Paths : \A r \in RecordOf(db, p) :
    TextsOf(db, p) = chunk_text(r.file_hash.words)

(* C5: the store never holds, for one path, chunks inserted by two calls.  *)
C5_NoDoubleInsert ==
  \A a \in origin, b \in origin :
    ( /\ a.file_path = b.file_path
      /\ \E c \in db.memory_chunks : c.chunk_id = a.chunk_id
      /\ \E c \in db.memory_chunks : c.chunk_id = b.chunk_id )
    => a.batch = b.batch

(* the ids come from two different indexing runs of one path *)
Mixed(ids) ==
  \E a \in origin, b \in origin :
    /\ a.chunk_id \in ids /\ b.chunk_id \in ids
    /\ a.file_path = b.file_path
    /\ a.batch # b.batch

(* C6: a query never scores chunks of two indexing runs of one file, and   *)
(* never looks up a chunk id that is no longer in memory_chunks (stated    *)
(* for the store with vec0 loaded, where every embedding row a query reads *)
(* is joined with memory_chunks in the same statement).                    *)
C6_NoMixtureNoDangling ==
  vec_loaded => (sr.dangling = {} /\ ~Mixed(sr.scored))

(* C7: once two or more events of a path have been handled and none is     *)
(* waiting, the stored digest and chunks are those of the file as it is    *)
(* (stated for the runs in which no index_file call of the path raised).   *)
C7_LaterContentWins ==
  \A p \in Paths :
    ( /\ handled[p].n >= 2
      /\ ~handled[p].raised
      /\ p \notin Range(events)
      /\ ix["watcher"].pc = "idle"
      /\ file[p] \in TextFiles )
    => /\ StoredHash(db, p) = _get_file_hash(file[p])
       /\ TextsOf(db, p) = chunk_text(file[p].words)

(* index_file writes the same (chunk_id, embedding) rows into              *)
(* vec_memory_chunks when vec0 is loaded as into embeddings_fallback when  *)
(* it is not: these are the rows either backend holds after the same calls *)
ActiveEmbeddings(d) ==
  IF vec_loaded THEN d.vec_memory_chunks ELSE d.embeddings_fallback

(* C8: over the rows the same index_file calls have stored, the vec0 query *)
(* and the linear scan return the same set of chunk ids for every top_k,   *)
(* for some order of the rows of equal score.                              *)
C8_FallbackEquivalence ==
  \A k \in 1..MaxTopK :
    \E n \in VectorNative(ActiveEmbeddings(db), db.memory_chunks, Query, k) :
      Ids(n) = Ids(VectorFallbackResults(Similarities(ActiveEmbeddings(db), Query),
                                         db.memory_chunks, k))

(* C9: without vec0 neither a query nor index_file fails with the error of *)
(* a missing table.                                                        *)
C9_FallbackCompletes ==
  ~vec_loaded =>
    /\ sr.pc # "raised"
    /\ \A i \in Procs : ix[i].exc # "OperationalError"

InputErrors ==
  {"FileNotFoundError", "PermissionError", "IsADirectoryError", "UnicodeDecodeError"}

(* C10: a call that raises because of its input has issued no DELETE and   *)
(* no INSERT.                                                              *)
C10_RejectBeforeMutation ==
  \A i \in Procs :
    (ix[i].pc = "raised" /\ ix[i].exc \in InputErrors) => ix[i].issued = {}

HybridReturned ==
  sr.pc = "returned" /\ sr.op = "hybrid"

(* C11: search_hybrid returns at most top_k results, in non-increasing     *)
(* order of combined score, with the ranks 1, 2, ..., n in list order.     *)
C11_HybridRanks ==
  HybridReturned =>
    /\ Len(sr.results) <= sr.top_k
    /\ \A j \in 1..Len(sr.results) - 1 : sr.results[j].score >= sr.results[j + 1].score
    /\ \A j \in 1..Len(sr.results) : sr.results[j].rank = j

(* min-max normalisation, (score - min) / (max - min): the pair            *)
(* <<numerator, denominator>> of the normalised score of id in a result    *)
(* list, <<1, 1>> when all scores are equal and <<0, 1>> for an id the     *)
(* list does not hold (bm25_scores.get(chunk_id, 0.0))                     *)
ScoresOf(results) ==
  {results[j].score : j \in 1..Len(results)}

Normalized(results, id) ==
  IF id \notin Ids(results)
  THEN <<0, 1>>
  ELSE LET lo == CHOOSE x \in ScoresOf(results) : \A y \in ScoresOf(results) : x <= y
           hi == CHOOSE x \in ScoresOf(results) : \A y \in ScoresOf(results) : x >= y
           own == (CHOOSE j \in 1..Len(results) : results[j].chunk_id = id)
       IN IF hi = lo THEN <<1, 1>> ELSE <<results[own].score - lo, hi - lo>>

(* C12: the candidates of search_hybrid are the union of the (at most      *)
(* 2 * top_k) lexical and the (at most 2 * top_k) vector results, and the  *)
(* combined score of each is bm25_weight * normalised lexical score +      *)
(* vector_weight * normalised vector score, 0 for the side it is absent    *)
(* from (scores over the common denominator of the two normalisations).    *)
C12_UnionAndFusion ==
  HybridReturned =>
    /\ Len(sr.bm25_results) <= 2 * sr.top_k
    /\ Len(sr.vector_results) <= 2 * sr.top_k
    /\ {c.chunk_id : c \in sr.combined_scores} = Ids(sr.bm25_results) \cup Ids(sr.vector_results)
    /\ \A c \in sr.combined_scores :
         LET l == Normalized(sr.bm25_results, c.chunk_id)
             v == Normalized(sr.vector_results, c.chunk_id)
             dl == Normalized(sr.bm25_results, sr.bm25_results[1].chunk_id)[2]
             dv == Normalized(sr.vector_results, sr.vector_results[1].chunk_id)[2]
             DL == IF sr.bm25_results = <<>> THEN 1 ELSE dl
             DV == IF sr.vector_results = <<>> THEN 1 ELSE dv
         IN c.score * l[2] * v[2]
              = (sr.bm25_weight * l[1] * v[2] + sr.vector_weight * v[1] * l[2]) * DL * DV

(* a candidate of one list only, next to a list whose scores differ *)
C12_Witness ==
  /\ HybridReturned
  /\ Ids(sr.bm25_results) \ Ids(sr.vector_results) # {}
  /\ Cardinality(ScoresOf(sr.vector_results)) >= 2

(* C13: the normalised scores of a non-empty result list lie in [0, 1],    *)
(* the largest is exactly 1, and a list whose raw scores are all equal is  *)
(* mapped to 1 throughout, with no division by zero.                       *)
C13_Normalized ==
  HybridReturned =>
    \A side \in { <<sr.bm25_results, sr.bm25_scores>>, <<sr.vector_results, sr.vector_scores>> } :
      side[1] # <<>> =>
        /\ {r.chunk_id : r \in side[2]} = Ids(side[1])
        /\ \A r \in side[2] : r.den > 0 /\ 0 <= r.num /\ r.num <= r.den
        /\ \E r \in side[2] : r.num = r.den
        /\ Cardinality(ScoresOf(side[1])) = 1 => \A r \in side[2] : r.num = r.den

(* one list with different raw scores, the other with equal ones *)
C13_Witness ==
  /\ HybridReturned
  /\ Cardinality(ScoresOf(sr.bm25_results)) >= 2
  /\ Cardinality(ScoresOf(sr.vector_results)) = 1

(* the chunk ids of a result list, in list order *)
IdsInOrder(results) ==
  [j \in 1..Len(results) |-> results[j].chunk_id]

(* what search_vector returns on the committed database d *)
search_vector(d, q, k) ==
  IF vec_loaded
  THEN VectorNative(d.vec_memory_chunks, d.memory_chunks, q, k)
  ELSE {VectorFallbackResults(Similarities(d.embeddings_fallback, q), d.memory_chunks, k)}

(* the whole query has read one and the same committed database *)
SameCorpus ==
  db = sr.corpus

(* C14: on one corpus, search_hybrid with vector_weight = 0 returns the    *)
(* chunks of search_bm25 in the same order, and with bm25_weight = 0 the   *)
(* chunks of search_vector in the same order (same query and top_k).       *)
C14_SingleModeEquivalence ==
  (HybridReturned /\ SameCorpus) =>
    /\ sr.vector_weight = 0 =>
         \E r \in search_bm25(db, Query, sr.top_k) : IdsInOrder(sr.results) = IdsInOrder(r)
    /\ sr.bm25_weight = 0 =>
         \E r \in search_vector(db, Query, sr.top_k) : IdsInOrder(sr.results) = IdsInOrder(r)

(* C15: on one corpus, results of equal combined score are returned in     *)
(* insertion order (chunk ids are handed out in insertion order), so the   *)
(* result list is a function of corpus, query, top_k and weights.          *)
C15_TiesInInsertionOrder ==
  (HybridReturned /\ SameCorpus) =>
    \A j \in 1..Len(sr.results) - 1 :
      sr.results[j].score = sr.results[j + 1].score
        => sr.results[j].chunk_id < sr.results[j + 1].chunk_id

(* the number of whitespace-delimited words of a text *)
WordCount(text) ==
  Cardinality({j \in 1..Len(text) : text[j] # 0})

(* ceil(a / b) for a >= 0 < b *)
Ceil(a, b) ==
  (a + b - 1) \div b

(* C16: for a text of W words chunk_text returns 1 chunk when 0 < W <=     *)
(* size and ceil((W - overlap) / (size - overlap)) chunks when W > size.   *)
C16_ChunkCount ==
  ct.pc = "returned" =>
    LET W == WordCount(ct.text) IN
      /\ (0 < W /\ W <= ct.chunk_size) => Len(ct.chunks) = 1
      /\ W > ct.chunk_size =>
           Len(ct.chunks) = Ceil(W - ct.chunk_overlap, ct.chunk_size - ct.chunk_overlap)

(* three chunks or more, and a last step that does not divide evenly *)
C16_Witness ==
  /\ ct.pc = "returned"
  /\ Len(ct.chunks) >= 3
  /\ (WordCount(ct.text) - ct.chunk_overlap) % (ct.chunk_size - ct.chunk_overlap) # 0

(* C17: the k-th chunk (from 0) holds the words at the indices             *)
(* [k * (size - overlap), min(k * (size - overlap) + size, W)), in order;  *)
(* consecutive chunks share exactly `overlap` words, every chunk but the   *)
(* first has a word its predecessor lacks, and every word is in a chunk.   *)
C17_ChunkWindows ==
  ct.pc = "returned" =>
    LET W == WordCount(ct.text)
        step == ct.chunk_size - ct.chunk_overlap
        n == Len(ct.chunks)
    IN /\ \A k \in 0..(n - 1) :
            ct.chunks[k + 1] = [j \in 1..(Min(k * step + ct.chunk_size, W) - k * step) |-> k * step + j]
       /\ \A k \in 1..(n - 1) :
            /\ Cardinality(Range(ct.chunks[k]) \cap Range(ct.chunks[k + 1])) = ct.chunk_overlap
            /\ Range(ct.chunks[k + 1]) \ Range(ct.chunks[k]) # {}
       /\ UNION {Range(ct.chunks[k]) : k \in 1..n} = 1..W

(* overlapping chunks, the last one short *)
C17_Witness ==
  /\ ct.pc = "returned"
  /\ ct.chunk_overlap > 0
  /\ Len(ct.chunks) >= 2
  /\ Len(ct.chunks[Len(ct.chunks)]) < ct.chunk_size

(* every chunk has at least one and at most chunk_size words, and a text   *)
(* without words gives no chunk                                            *)
ChunksWellFormed ==
  /\ WordCount(ct.text) = 0 => ct.chunks = <<>>
  /\ \A k \in 1..Len(ct.chunks) :
       Len(ct.chunks[k]) >= 1 /\ Len(ct.chunks[k]) <= ct.chunk_size

(* C18: every call of chunk_text returns, and what it returns is the empty *)
(* sequence for an empty text and otherwise chunks of 1 to chunk_size      *)
(* words.                                                                  *)
C18_ChunkTextTerminates ==
  (ct.pc = "loop") ~> (ct.pc = "returned" /\ ChunksWellFormed)

(* a call on a text of whitespace only has returned *)
C18_Witness ==
  /\ ct.pc = "returned"
  /\ ct.text # <<>>
  /\ ct.chunks = <<>>

RecentReturned ==
  sr.pc = "returned" /\ sr.op = "recent"

(* C19: get_recent_context(days) returns exactly the stored chunks whose   *)
(* created_at lies in [now - days, now], newest first.                     *)
C19_RecentWindow ==
  (RecentReturned /\ SameCorpus) =>
    /\ {sr.recent[j].chunk_id : j \in 1..Len(sr.recent)}
         = {c.chunk_id : c \in {m \in db.memory_chunks :
                                   /\ m.created_at >= sr.now - sr.days * Day
                                   /\ m.created_at <= sr.now}}
    /\ \A j \in 1..Len(sr.recent) - 1 : sr.recent[j].created_at >= sr.recent[j + 1].created_at

(* C20: a step of search_bm25, search_vector, search_hybrid or             *)
(* get_recent_context, whether the query goes on, returns or raises,       *)
(* leaves the committed tables, the open transactions and the write lock   *)
(* as they are.                                                            *)
C20_QueriesReadOnly ==
  [][sr' # sr => (db' = db /\ txn' = txn /\ unclosed' = unclosed)]_vars

(* a query has failed on a store that holds a file record *)
C20_Witness ==
  /\ sr.pc = "raised"
  /\ db.indexed_files # {}

(* the chunk ids that have a row in the embedding table in use *)
EmbeddedIds(d) ==
  {v.chunk_id : v \in ActiveEmbeddings(d)}

(* C21: in every committed state every chunk of memory_chunks has a stored *)
(* embedding.                                                              *)
C21_ChunksHaveEmbeddings ==
  \A c \in db.memory_chunks : c.chunk_id \in EmbeddedIds(db)

(* the chunks of a re-index are stored, after those of the first run *)
C21_Witness ==
  /\ Cardinality(db.memory_chunks) >= 2
  /\ \A c \in db.memory_chunks : c.chunk_id > 1

(* the embedding rows of the chunks that were inserted for path p *)
EmbeddingsOf(d, p) ==
  {v \in ActiveEmbeddings(d) : \E o \in origin : o.chunk_id = v.chunk_id /\ o.file_path = p}

(* C22: the committed database changes only when a call index_file(p)      *)
(* commits; the step leaves the chunks, the embeddings and the file record *)
(* of every other path as they were, and it removes chunks only when the   *)
(* call is a re-index (it found a file record of p).                       *)
C22_OwnPathOnly ==
  [][db' # db =>
       \E i \in Procs :
         /\ ix[i].pc = "insert" /\ ix'[i].pc = "returned"
         /\ \A q \in AllPaths \ {ix[i].file_path} :
              /\ ChunksOf(db', q) = ChunksOf(db, q)
              /\ RecordOf(db', q) = RecordOf(db, q)
              /\ EmbeddingsOf(db', q) = EmbeddingsOf(db, q)
         /\ db.memory_chunks \ db'.memory_chunks # {} => ix[i].result # NoHash]_vars

(* both paths hold chunks, those of one of them written by a re-index *)
C22_Witness ==
  /\ \A q \in AllPaths : ChunksOf(db, q) # {}
  /\ \E i \in Procs : ix[i].pc = "returned" /\ "DELETE" \in ix[i].issued

(* the call has committed its chunks and returned *)
Wrote(i) ==
  ix[i].pc = "returned" /\ "INSERT" \in ix[i].issued

(* C23: for every path with a file record and n stored chunks, the         *)
(* chunk_index values are exactly 0..n-1, each once, and chunk_count is n; *)
(* chunks are stored only under paths with a file record; and when the     *)
(* call that wrote them returns, it returns n and the chunks are, in       *)
(* chunk_index order, the chunks of the text it read.                      *)
C23_OrdinalsAndCount ==
  /\ \A p \in AllPaths :
       LET cs == ChunksOf(db, p)
           n == Cardinality(cs)
       IN /\ cs # {} => RecordOf(db, p) # {}
          /\ \A r \in RecordOf(db, p) :
               /\ {c.chunk_index : c \in cs} = 0..(n - 1)
               /\ r.chunk_count = n
  /\ \A i \in Procs :
       Wrote(i) =>
         /\ ix[i].ret = Cardinality(ChunksOf(db, ix[i].file_path))
         /\ TextsOf(db, ix[i].file_path) = ix[i].chunks

(* a re-index has written two chunks, next to the chunk of the other path *)
C23_Witness ==
  /\ \E i \in Procs : Wrote(i) /\ "DELETE" \in ix[i].issued /\ ix[i].ret = 2
  /\ ChunksOf(db, OtherPath) # {}

(* the call found the digest of the file equal to the stored one *)
Skipped(i) ==
  ix[i].pc = "returned" /\ ix[i].issued = {}

(* C24: the created_at of every stored chunk is the last_indexed of the    *)
(* file record of its path (so the chunks of a path share it); a call on   *)
(* unchanged content leaves chunks and record as they were; a re-index     *)
(* sets both timestamps to a time taken during the re-indexing call.       *)
C24_RecencyIsLastIndex ==
  /\ \A c \in db.memory_chunks :
       \E r \in RecordOf(db, c.file_path) : c.created_at = r.last_indexed
  /\ \A i \in Procs :
       LET p == ix[i].file_path IN
         /\ Skipped(i) =>
              /\ ChunksOf(db, p) = ChunksOf(pre[i], p)
              /\ RecordOf(db, p) = RecordOf(pre[i], p)
         /\ (Wrote(i) /\ ix[i].result # NoHash) =>
              /\ \A r \in RecordOf(db, p) : r.last_indexed = ix[i].now
              /\ \A c \in ChunksOf(db, p) : c.created_at = ix[i].now
              /\ ix[i].current_time <= ix[i].now
              /\ ix[i].now <= clock

(* a re-index has replaced the chunks of an earlier time, and time went on *)
(* between its datetime.now() and its commit                               *)
C24_Witness ==
  \E i \in Procs :
    /\ Wrote(i) /\ ix[i].result # NoHash
    /\ ChunksOf(db, ix[i].file_path) # {}
    /\ ChunksOf(pre[i], ix[i].file_path) # {}
    /\ \A c \in ChunksOf(pre[i], ix[i].file_path) : c.created_at < ix[i].now
    /\ ix[i].now < clock

(* the values of vector_weight that are compared: a negative one, none,    *)
(* the default and all                                                     *)
VectorWeights ==
  {0 - 50, 0, VectorWeight, 100}

(* the position of id in a list of rows, 0 when the list does not hold it *)
Pos(rows, id) ==
  IF id \in Ids(rows)
  THEN CHOOSE j \in 1..Len(rows) : rows[j].chunk_id = id
  ELSE 0

(* b is listed and a is not, or is listed after b *)
Below(rows, a, b) ==
  /\ Pos(rows, b) > 0
  /\ Pos(rows, a) = 0 \/ Pos(rows, a) > Pos(rows, b)

(* a and b have the same normalised lexical score, a the higher vector one *)
EqualLexicalHigherVector(a, b) ==
  /\ GetScore(normalize_scores(sr.bm25_results), a) = GetScore(normalize_scores(sr.bm25_results), b)
  /\ GetScore(normalize_scores(sr.vector_results), a) > GetScore(normalize_scores(sr.vector_results), b)

(* the combined score of id under the weights of the call but for the      *)
(* vector weight vw                                                        *)
CombinedAt(vw, id) ==
  (CHOOSE c \in CombinedScores(sr.bm25_results, sr.vector_results, sr.bm25_weight, vw) :
     c.chunk_id = id).score

(* C25: for candidates A and B with equal normalised lexical scores and A  *)
(* the higher normalised vector score, and for every vector weight below   *)
(* the one of the call (bm25_weight the same), combined(A) - combined(B)   *)
(* is no smaller in the call than under the lower weight, and if A was not *)
(* below B by combined score under the lower weight, the call does not     *)
(* list A below B.                                                         *)
C25_FusionMonotone ==
  HybridReturned =>
    \A a \in Ids(sr.bm25_results) \cup Ids(sr.vector_results) :
      \A b \in Ids(sr.bm25_results) \cup Ids(sr.vector_results) :
        EqualLexicalHigherVector(a, b) =>
          \A vw \in {w \in VectorWeights : w < sr.vector_weight} :
            /\ CombinedAt(sr.vector_weight, a) - CombinedAt(sr.vector_weight, b)
                 >= CombinedAt(vw, a) - CombinedAt(vw, b)
            /\ CombinedAt(vw, a) >= CombinedAt(vw, b) => ~Below(sr.sorted_chunk_ids, a, b)

(* such a pair, B among the listed ids, under a raised vector weight *)
C25_Witness ==
  /\ HybridReturned
  /\ sr.vector_weight > 0
  /\ \E a \in Ids(sr.sorted_chunk_ids), b \in Ids(sr.sorted_chunk_ids) :
       EqualLexicalHigherVector(a, b)

(* the normalised score num / den of id in a dictionary of normalised      *)
(* scores, 0 / 1 when the dictionary does not hold it                      *)
ScoreIn(scores, id) ==
  IF \E r \in scores : r.chunk_id = id
  THEN LET r == CHOOSE x \in scores : x.chunk_id = id IN <<r.num, r.den>>
  ELSE <<0, 1>>

(* C26: under the default weights 0.3 and 0.7, of two returned chunks, V   *)
(* with normalised vector score v and lexical score 0 and L with           *)
(* normalised lexical score l and vector score 0, V has the smaller rank   *)
(* and comes first in the list whenever 0.7 * v > 0.3 * l.                 *)
C26_VectorHitOutranks ==
  (HybridReturned /\ sr.bm25_weight = 30 /\ sr.vector_weight = 70) =>
    \A jv \in 1..Len(sr.results), jl \in 1..Len(sr.results) :
      LET V == sr.results[jv].chunk_id
          L == sr.results[jl].chunk_id
          v == ScoreIn(sr.vector_scores, V)
          l == ScoreIn(sr.bm25_scores, L)
      IN ( /\ V # L
           /\ ScoreIn(sr.bm25_scores, V)[1] = 0
           /\ ScoreIn(sr.vector_scores, L)[1] = 0
           /\ 70 * v[1] * l[2] > 30 * l[1] * v[2] )
         => jv < jl /\ sr.results[jv].rank < sr.results[jl].rank

(* the vector hit and the lexical hit are returned, each with the highest  *)
(* normalised score of its list                                           *)
C26_Witness ==
  /\ HybridReturned /\ sr.bm25_weight = 30 /\ sr.vector_weight = 70
  /\ \E jv \in 1..Len(sr.results), jl \in 1..Len(sr.results) :
       LET V == sr.results[jv].chunk_id
           L == sr.results[jl].chunk_id
       IN /\ V # L
          /\ ScoreIn(sr.bm25_scores, V)[1] = 0
          /\ ScoreIn(sr.vector_scores, L)[1] = 0
          /\ ScoreIn(sr.vector_scores, V) = <<ScoreIn(sr.vector_scores, V)[2], ScoreIn(sr.vector_scores, V)[2]>>
          /\ ScoreIn(sr.bm25_scores, L)[1] > 0

(* C27: every row of vec_memory_chunks and of embeddings_fallback belongs  *)
(* to a chunk that memory_chunks holds.                                    *)
C27_NoOrphanEmbeddings ==
  \A v \in db.vec_memory_chunks \cup db.embeddings_fallback :
    \E c \in db.memory_chunks : c.chunk_id = v.chunk_id

VectorReturned ==
  sr.pc = "returned" /\ sr.op = "vector"

(* C28: on one corpus of N stored chunks search_vector(query, top_k)       *)
(* returns min(top_k, N) results, with the ranks 1, 2, ..., n in list      *)
(* order, with vec0 and without.                                           *)
C28_VectorResultCount ==
  (VectorReturned /\ SameCorpus) =>
    /\ Len(sr.results) = Min(sr.top_k, Cardinality(db.memory_chunks))
    /\ \A j \in 1..Len(sr.results) : sr.results[j].rank = j

(* C29: in search_hybrid a candidate that search_bm25 ranks ahead of       *)
(* another has a normalised lexical score at least as high, and the top    *)
(* lexical hit has the normalised lexical score 1.                         *)
C29_NormalizationKeepsOrder ==
  HybridReturned =>
    /\ \A j \in 1..Len(sr.bm25_results), k \in 1..Len(sr.bm25_results) :
         sr.bm25_results[j].rank < sr.bm25_results[k].rank
           => ScoreIn(sr.bm25_scores, sr.bm25_results[j].chunk_id)[1]
                >= ScoreIn(sr.bm25_scores, sr.bm25_results[k].chunk_id)[1]
    /\ sr.bm25_results # <<>> =>
         LET top == ScoreIn(sr.bm25_scores, sr.bm25_results[1].chunk_id)
         IN top[1] = top[2]

(* C30: the digest that a call of index_file has recorded for its path is  *)
(* the digest of the content that the call has read, chunked and stored.   *)
C30_DigestOfStoredContent ==
  \A i \in Procs :
    Wrote(i) => StoredHash(db, ix[i].file_path) = ix[i].content

====
